---- MODULE Spec2Model ----
(***************************************************************************)
(* Booking availability: the ServiceAvailability view (paymentUtils.ts),   *)
(* the BookingAvailability view and the data access layer, as state        *)
(* machines over a small data store.                                       *)
(*                                                                         *)
(* A view's React state is one record (sa, ba).  A handler or an async     *)
(* continuation is one action: the setState calls it makes, then the       *)
(* effects whose dependencies changed, then the memoised values.           *)
(***************************************************************************)
EXTENDS Integers, Sequences, FiniteSets, TLC

VARIABLES
    sa,      \* ServiceAvailability: its useState cells, memos and pending requests
    ba,      \* BookingAvailability: its useState cells and pending requests
    booked,  \* the store: ids of the slots whose is_booked is true
    mx,      \* the slot matrix builder on its own: an input list and its matrix
    schedules,  \* the store: the business_schedules rows of each resource
    pf,      \* DynamicPricingForm: its useState cells, its toast and pending requests
    pricingRules,  \* the store: the resource_pricing_rules rows, newest first
    pm       \* one call of fetchServicePaymentMethods and the tables it reads

vars == <<sa, ba, booked, mx, schedules, pf, pricingRules, pm>>

\* ------------------------------------------------------------------ bounds

\* Requests (slot fetches and weekly-schedule fetches) a view has in flight at once.
MaxInFlight == 2
\* Slots the store marks booked during a run.
MaxBookings == 1
\* Length of the slot list handed to the slot matrix builder.
MaxLen == 3
\* Rules the business_schedules table holds for one resource, where it varies.
MaxRules == 2
\* Rows of the payment_methods table.
MaxMethods == 3
\* Pricing rules created during a run.
MaxPricingRules == 1

\* ------------------------------------------------------------- null values

\* null / undefined of a string cell (string | null, string | undefined).
NULL == "null"
\* null of slot_price (number | null).
NullPrice == -1
\* An optional value: <<>> is null, <<v>> is v.
None == <<>>
Some(v) == <<v>>

\* ------------------------------------------------------------------ store

\* A Date is an instant, in hours; hour 0 is the midnight that starts a Sunday.
\* Calendar days are numbered from it.  The calendar of the runs: a Saturday
\* and the Sunday after it.
Dates == {6, 7}
\* The Date the calendar widget hands over for a day: its local midnight.
DateOf(day) == 24 * day
\* format(d, "yyyy-MM-dd"): the calendar day of a Date, its time of day dropped.
toISODateOnly(date) == date \div 24
\* Date.getDay(): 0 = Sunday .. 6 = Saturday.
getDay(date) == toISODateOnly(date) % 7

\* business_resources, in name order.
StoreResources ==
    << [id |-> "r1", name |-> "A", business_id |-> "b1"],
       [id |-> "r2", name |-> "B", business_id |-> "b1"] >>

ResourceIds == {StoreResources[i].id : i \in DOMAIN StoreResources}

\* slots of one day, in start_time order: one slot per resource, same window;
\* none on a day outside Dates.
StoreSlots(d) ==
    IF d \notin Dates THEN <<>>
    ELSE << [id |-> <<"r1", d>>, resource_id |-> "r1", start_time |-> 24 * d + 9,
             end_time |-> 24 * d + 10, slot_price |-> 20],
            [id |-> <<"r2", d>>, resource_id |-> "r2", start_time |-> 24 * d + 9,
             end_time |-> 24 * d + 10,
             slot_price |-> IF d % 2 = 0 THEN NullPrice ELSE 30] >>

\* A day the store has no slot on: the Saturday after.
EmptyDates == {13}

SlotIds == {StoreSlots(d)[i].id : d \in Dates, i \in 1..2}

\* The slots other customers book during a run: one on each day.
Bookable == {<<"r1", 6>>, <<"r2", 7>>}

\* business_schedules: day_of_week 1 = Monday .. 7 = Sunday.
StoreSchedule(r) ==
    IF r = "r1"
    THEN << [day_of_week |-> 6, is_open |-> TRUE],
            [day_of_week |-> 7, is_open |-> TRUE] >>
    ELSE << [day_of_week |-> 6, is_open |-> TRUE],
            [day_of_week |-> 7, is_open |-> FALSE] >>

\* The weekly schedules with exactly one rule for each day_of_week 1..7.
WeekSchedules ==
    {[k \in 1..7 |-> [day_of_week |-> k, is_open |-> open[k]]] :
        open \in [1..7 -> BOOLEAN]}

\* business_schedules as the runs of the two views find it.
StoreSchedules == [r \in ResourceIds |-> StoreSchedule(r)]

\* A business_schedules row, as far as the views read it.
Rules == [day_of_week : 1..7, is_open : BOOLEAN]

\* What the table can hold for one resource: any few rows, a day twice included.
RuleSets == {S \in SUBSET Rules : Cardinality(S) <= MaxRules}

\* .order('day_of_week'): the rows by day; rows of one day in no promised order
\* (here the closed one first).
RECURSIVE ByDay(_)
ByDay(S) ==
    IF S = {} THEN <<>>
    ELSE LET rank(x) == 2 * x.day_of_week + (IF x.is_open THEN 1 ELSE 0)
             first == CHOOSE x \in S : \A y \in S : rank(x) <= rank(y)
         IN  <<first>> \o ByDay(S \ {first})

\* ------------------------------------------------------- data access layer

\* business_resources .eq("id", id).maybeSingle(): the row, or null.
LookupResource(id) ==
    LET hit == SelectSeq(StoreResources, LAMBDA r : r.id = id)
    IN  IF Len(hit) = 0 THEN None ELSE Some(hit[1])

\* fetchResources: the business's resources as {id, name}, by name.
fetchResources(businessId) ==
    LET rows == SelectSeq(StoreResources, LAMBDA r : r.business_id = businessId)
    IN  [i \in DOMAIN rows |-> [id |-> rows[i].id, name |-> rows[i].name]]

\* The store's answer for one day, read while `bk` are the booked slots.
SlotRows(d, bk) ==
    [i \in DOMAIN StoreSlots(d) |->
        [id |-> StoreSlots(d)[i].id,
         resource_id |-> StoreSlots(d)[i].resource_id,
         start_time |-> StoreSlots(d)[i].start_time,
         end_time |-> StoreSlots(d)[i].end_time,
         slot_price |-> StoreSlots(d)[i].slot_price,
         is_booked |-> StoreSlots(d)[i].id \in bk]]

\* fetchAllSlotsForBusiness: every slot of the business on one day.
fetchAllSlotsForBusiness(businessId, d, bk) ==
    IF businessId = "b1" THEN SlotRows(d, bk) ELSE <<>>

\* fetchDailySlots: the slots of one resource on one day, by start_time.
fetchDailySlots(resourceId, d, bk) ==
    LET rows == SelectSeq(SlotRows(d, bk), LAMBDA s : s.resource_id = resourceId)
    IN  [i \in DOMAIN rows |->
            [id |-> rows[i].id, start_time |-> rows[i].start_time,
             end_time |-> rows[i].end_time, slot_price |-> rows[i].slot_price,
             is_booked |-> rows[i].is_booked]]

\* fetchWeeklySchedule: the resource's rules, by day_of_week; no row for a
\* resource the table does not know.
fetchWeeklySchedule(resourceId) ==
    IF resourceId \in DOMAIN schedules THEN schedules[resourceId] ELSE <<>>

\* ------------------------------------------- ServiceAvailability: derived

\* slot_price || 0 : null, undefined and 0 all count 0.
PriceOrZero(p) == IF p = NullPrice \/ p = 0 THEN 0 ELSE p

\* slots.filter(s => selected.has(s.id)).reduce((sum, s) => sum + (s.slot_price || 0), 0)
RECURSIVE total(_, _)
total(selectedSlotIds, slots) ==
    IF slots = <<>> THEN 0
    ELSE LET n == Len(slots)
             sum == total(selectedSlotIds, SubSeq(slots, 1, n - 1))
         IN  IF slots[n].id \in selectedSlotIds
             THEN sum + PriceOrZero(slots[n].slot_price)
             ELSE sum

\* A faulty variant of RowKey, to test the properties against: the key leaves end_time out.
RowKeyStartOnly(x) == <<x.start_time>>

\* The Map key `${slot.start_time}|${slot.end_time}`.
RowKey(x) == <<x.start_time, x.end_time>>

\* grouped.has(key) / grouped.get(key): the position of the key's row, 0 if none.
RowIndex(grouped, key) ==
    IF \E i \in DOMAIN grouped : RowKey(grouped[i]) = key
    THEN CHOOSE i \in DOMAIN grouped : RowKey(grouped[i]) = key
    ELSE 0

\* A faulty variant of PutSlot, to test the properties against: a resource's
\* first slot stays.
PutSlotFirst(byResource, slot) ==
    IF slot.resource_id \in DOMAIN byResource THEN byResource
    ELSE [r \in DOMAIN byResource \cup {slot.resource_id} |->
             IF r = slot.resource_id THEN slot ELSE byResource[r]]

\* entry.slotsByResource[slot.resource_id] = slot
PutSlot(byResource, slot) ==
    [r \in DOMAIN byResource \cup {slot.resource_id} |->
        IF r = slot.resource_id THEN slot ELSE byResource[r]]

\* A faulty variant of RowPrice, to test the properties against: a later price that is not null replaces the row's price.
RowPriceLatest(price, slot) ==
    IF slot.slot_price # NullPrice THEN slot.slot_price ELSE price

\* if (entry.price === null || entry.price === undefined) entry.price = slot.slot_price ?? null
RowPrice(price, slot) == IF price = NullPrice THEN slot.slot_price ELSE price

\* One iteration of the grouping loop; grouped is the Map in insertion order.
GroupSlot(grouped, slot) ==
    LET found == RowIndex(grouped, RowKey(slot))
        g == IF found # 0 THEN grouped
             ELSE Append(grouped, [start_time |-> slot.start_time,
                                   end_time |-> slot.end_time,
                                   price |-> slot.slot_price,
                                   slotsByResource |-> [r \in {} |-> slot]])
        i == IF found # 0 THEN found ELSE Len(g)
    IN  [g EXCEPT ![i] = [@ EXCEPT !.slotsByResource = PutSlot(@, slot),
                                   !.price = RowPrice(@, slot)]]

\* for (const slot of slots) { ... }
RECURSIVE GroupSlots(_)
GroupSlots(slots) ==
    IF slots = <<>> THEN <<>>
    ELSE GroupSlot(GroupSlots(SubSeq(slots, 1, Len(slots) - 1)), slots[Len(slots)])

\* A faulty variant of CompareRows, to test the properties against: the operands are swapped.
CompareRowsSwapped(a, b) == b.start_time - a.start_time

\* The comparator new Date(a.start_time).getTime() - new Date(b.start_time).getTime().
CompareRows(a, b) == a.start_time - b.start_time

\* Array.prototype.sort is stable: a row goes after the rows that do not compare after it.
InsertRow(sorted, row) ==
    LET before == {i \in DOMAIN sorted : CompareRows(sorted[i], row) <= 0}
        k == IF before = {} THEN 0 ELSE CHOOSE i \in before : \A j \in before : j <= i
    IN  SubSeq(sorted, 1, k) \o <<row>> \o SubSeq(sorted, k + 1, Len(sorted))

RECURSIVE SortRows(_)
SortRows(rows) ==
    IF rows = <<>> THEN <<>>
    ELSE InsertRow(SortRows(SubSeq(rows, 1, Len(rows) - 1)), rows[Len(rows)])

\* Array.from(grouped.values()).sort(...)
slotMatrix(slots) == SortRows(GroupSlots(slots))

\* A faulty variant of toggleSelect, to test the properties against: a selected slot is never removed.
toggleSelectAddOnly(prev, slot) ==
    IF slot.is_booked THEN prev ELSE prev \cup {slot.id}

\* toggleSelect(slot) applied to the previous selection.
toggleSelect(prev, slot) ==
    IF slot.is_booked THEN prev
    ELSE IF slot.id \in prev THEN prev \ {slot.id} ELSE prev \cup {slot.id}

\* --------------------------------------- ServiceAvailability: the effects

\* useState initial values; new Date() is noon of the first day.
SAInitial(initialResourceId) ==
    [ pc |-> "new",
      initialResourceId |-> initialResourceId,
      selectedDate |-> DateOf(6) + 12,
      resources |-> <<>>,
      selectedResourceId |-> initialResourceId,
      loadingResources |-> FALSE,
      businessId |-> NULL,
      slots |-> <<>>,
      loadingSlots |-> FALSE,
      error |-> NULL,
      selectedSlotIds |-> {},
      disabledDays |-> None,
      total |-> 0,
      loadResources |-> "idle",   \* where the loadResources call stands
      slotFetches |-> <<>>,       \* fetchAllSlotsForBusiness calls not yet settled
      weeklyFetches |-> <<>> ]    \* fetchWeeklySchedule calls not yet settled

\* The view does not exist in this run.
SAOff == [SAInitial(NULL) EXCEPT !.pc = "off"]

\* loadResources() up to its first await.
loadResources(st) ==
    IF st.initialResourceId = NULL THEN st
    ELSE [st EXCEPT !.loadingResources = TRUE, !.error = NULL,
                    !.loadResources = "lookup"]

\* A faulty variant of SlotsWanted, to test the properties against: the guard
\* does not look at loadingResources.
SlotsWantedWhileLoading(st) == st.businessId # NULL

\* Whether loadSlots() gets past its guard.
SlotsWanted(st) == st.businessId # NULL /\ ~st.loadingResources

\* loadSlots() up to its await.
loadSlots(st) ==
    IF ~SlotsWanted(st) THEN st
    ELSE [st EXCEPT !.loadingSlots = TRUE, !.error = NULL,
                    !.selectedSlotIds = {},
                    !.slotFetches = Append(@, [businessId |-> st.businessId,
                                               date |-> toISODateOnly(st.selectedDate)])]

\* loadWeekly() up to its await.
loadWeekly(st) ==
    IF st.selectedResourceId = NULL THEN st
    ELSE [st EXCEPT !.weeklyFetches = Append(@, st.selectedResourceId)]

\* useEffect(..., [businessId, selectedDate, loadingResources])
SlotsDeps(st) == <<st.businessId, st.selectedDate, st.loadingResources>>

\* useEffect(..., [selectedResourceId])
WeeklyDeps(st) == <<st.selectedResourceId>>

\* The effects that run after a render: those whose dependencies changed.
SAEffects(old, new) ==
    LET a == IF SlotsDeps(new) # SlotsDeps(old) THEN loadSlots(new) ELSE new
    IN  IF WeeklyDeps(new) # WeeklyDeps(old) THEN loadWeekly(a) ELSE a

\* A faulty variant of TotalDeps, to test the properties against: selectedSlotIds is missing from the dependency list.
TotalDepsSlotsOnly(st) == <<st.slots>>

\* useMemo(..., [selectedSlotIds, slots])
TotalDeps(st) == <<st.selectedSlotIds, st.slots>>

\* The memoised total: recomputed when a dependency changed.
SAMemo(old, new) ==
    IF TotalDeps(new) # TotalDeps(old)
    THEN [new EXCEPT !.total = total(new.selectedSlotIds, new.slots)]
    ELSE new

\* A render after the state changed from old to new, with its effects.
SACommit(old, new) == SAMemo(old, SAEffects(old, new))

\* The requests a commit would leave in flight stay within the bound.
SAWithinBounds(st) ==
    Len(st.slotFetches) + Len(st.weeklyFetches) <= MaxInFlight

\* A sequence without its i-th element.
RemoveAt(seq, i) == SubSeq(seq, 1, i - 1) \o SubSeq(seq, i + 1, Len(seq))

\* --------------------------------------- ServiceAvailability: the actions

\* What a catch block shows: e.message when e is an Error, else the fallback.
FailureMessages(fallback) == {"store error", fallback}

\* The first render's effects: loadResources, loadSlots, loadWeekly.
SAMount ==
    /\ sa.pc = "new"
    /\ sa' = SAMemo(sa, [loadWeekly(loadSlots(loadResources(sa))) EXCEPT !.pc = "mounted"])
    /\ UNCHANGED <<ba, booked, mx, schedules, pf, pricingRules, pm>>

\* loadResources after the initial-resource lookup, when the lookup failed.
LookupFailed(st, message) ==
    [st EXCEPT !.error = message, !.loadingResources = FALSE, !.loadResources = "idle"]

\* A faulty variant of LookupAnswered, to test the properties against: a
\* missing resource is reported with the message of a failed request.
LookupAnsweredAsFailure(st) ==
    LET initialRes == LookupResource(st.initialResourceId)
    IN  IF initialRes = None THEN LookupFailed(st, "Failed to load resources")
        ELSE [st EXCEPT !.businessId = initialRes[1].business_id,
                        !.loadResources = "siblings"]

\* loadResources after the initial-resource lookup, when the store answered.
LookupAnswered(st) ==
    LET initialRes == LookupResource(st.initialResourceId)
    IN  IF initialRes = None THEN LookupFailed(st, "Resource not found")
        ELSE [st EXCEPT !.businessId = initialRes[1].business_id,
                        !.loadResources = "siblings"]

SALookupDone ==
    /\ sa.pc = "mounted" /\ sa.loadResources = "lookup"
    /\ \/ sa' = SACommit(sa, LookupAnswered(sa))
       \/ \E message \in FailureMessages("Failed to load resources") :
              sa' = SACommit(sa, LookupFailed(sa, message))
    /\ UNCHANGED <<ba, booked, mx, schedules, pf, pricingRules, pm>>

\* loadResources after fetchResources resolved.
SiblingsAnswered(st) ==
    LET initialRes == LookupResource(st.initialResourceId)
    IN  [st EXCEPT !.resources = fetchResources(initialRes[1].business_id),
                   !.selectedResourceId = IF @ # NULL THEN @ ELSE initialRes[1].id,
                   !.loadingResources = FALSE, !.loadResources = "idle"]

SASiblingsDone ==
    /\ sa.pc = "mounted" /\ sa.loadResources = "siblings"
    /\ \/ sa' = SACommit(sa, SiblingsAnswered(sa))
       \/ \E message \in FailureMessages("Failed to load resources") :
              sa' = SACommit(sa, LookupFailed(sa, message))
    /\ SAWithinBounds(sa')
    /\ UNCHANGED <<ba, booked, mx, schedules, pf, pricingRules, pm>>

\* DayPicker disabled={disabledDays ? [{ dayOfWeek: disabledDays }] : undefined}
SADayDisabled(st, date) ==
    st.disabledDays # None /\ getDay(date) \in st.disabledDays[1]

\* DayPicker onSelect={(d) => d && setSelectedDate(d)}: a click on another day.
SAChangeDate(day) ==
    /\ sa.pc = "mounted"
    /\ day # toISODateOnly(sa.selectedDate)
    /\ ~SADayDisabled(sa, DateOf(day))
    /\ sa' = SACommit(sa, [sa EXCEPT !.selectedDate = DateOf(day)])
    /\ SAWithinBounds(sa')
    /\ UNCHANGED <<ba, booked, mx, schedules, pf, pricingRules, pm>>

\* Select onValueChange={(value) => setSelectedResourceId(value)}
SAChangeVenue(r) ==
    /\ sa.pc = "mounted" /\ ~sa.loadingResources
    /\ \E i \in DOMAIN sa.resources : sa.resources[i].id = r
    /\ r # sa.selectedResourceId
    /\ sa' = SACommit(sa, [sa EXCEPT !.selectedResourceId = r])
    /\ SAWithinBounds(sa')
    /\ UNCHANGED <<ba, booked, mx, schedules, pf, pricingRules, pm>>

\* The slots the table shows a cell for: row.slotsByResource[resource.id].
SACells(st) ==
    IF st.loadingSlots THEN {}
    ELSE LET rows == slotMatrix(st.slots)
             shown == {p \in (DOMAIN rows) \X (DOMAIN st.resources) :
                          st.resources[p[2]].id \in DOMAIN rows[p[1]].slotsByResource}
         IN  {rows[p[1]].slotsByResource[st.resources[p[2]].id] : p \in shown}

\* {!loadingSlots && slots.length === 0 && ( ... No slots found for ... )}
NoSlotsShown(st) == ~st.loadingSlots /\ Len(st.slots) = 0

\* The cell's onClick: if (!isBooked) toggleSelect(slot).
ClickCell(st, slot) ==
    IF slot.is_booked THEN st
    ELSE [st EXCEPT !.selectedSlotIds = toggleSelect(@, slot)]

SAClickCell(slot) ==
    /\ sa.pc = "mounted"
    /\ slot \in SACells(sa)
    /\ sa' = SACommit(sa, ClickCell(sa, slot))
    /\ UNCHANGED <<ba, booked, mx, schedules, pf, pricingRules, pm>>

\* A faulty variant of SlotsResolved, to test the properties against: the rows
\* of a request for a date that is no longer selected are dropped.
SlotsResolvedIfCurrent(st, i, bk) ==
    [st EXCEPT !.slots = IF st.slotFetches[i].date = toISODateOnly(st.selectedDate)
                         THEN fetchAllSlotsForBusiness(st.slotFetches[i].businessId,
                                                       st.slotFetches[i].date, bk)
                         ELSE @,
               !.loadingSlots = FALSE,
               !.slotFetches = RemoveAt(@, i)]

\* loadSlots after its await resolved: setSlots(data || []), then finally.
\* The store answers with its rows as they are when the request settles.
SlotsResolved(st, i, bk) ==
    [st EXCEPT !.slots = fetchAllSlotsForBusiness(st.slotFetches[i].businessId,
                                                  st.slotFetches[i].date, bk),
               !.loadingSlots = FALSE,
               !.slotFetches = RemoveAt(@, i)]

SASlotsResolve(i) ==
    /\ sa' = SACommit(sa, SlotsResolved(sa, i, booked))
    /\ UNCHANGED <<ba, booked, mx, schedules, pf, pricingRules, pm>>

\* loadSlots after its await rejected: catch, then finally.
SlotsRejected(st, i, message) ==
    [st EXCEPT !.error = message, !.loadingSlots = FALSE,
               !.slotFetches = RemoveAt(@, i)]

SASlotsReject(i) ==
    /\ \E message \in FailureMessages("Failed to load slots") :
           sa' = SACommit(sa, SlotsRejected(sa, i, message))
    /\ UNCHANGED <<ba, booked, mx, schedules, pf, pricingRules, pm>>

\* A faulty variant of DisabledDays, to test the properties against: a day with
\* a rule counts as open, whatever is_open says.
DisabledDaysAnyRule(rules) ==
    LET openSet == {rules[k].day_of_week % 7 : k \in DOMAIN rules}
    IN  {d \in 0..6 : d \notin openSet}

\* A faulty variant of DisabledDays, to test the properties against: day_of_week
\* is used as it is stored, 7 for Sunday.
DisabledDaysNoMod(rules) ==
    LET openSet == {rules[k].day_of_week : k \in {j \in DOMAIN rules : rules[j].is_open}}
    IN  {d \in 0..6 : d \notin openSet}

\* rules.filter((r) => r.is_open).map((r) => r.day_of_week % 7), then the complement.
DisabledDays(rules) ==
    LET openSet == {rules[k].day_of_week % 7 : k \in {j \in DOMAIN rules : rules[j].is_open}}
    IN  {d \in 0..6 : d \notin openSet}

\* A faulty variant of WeeklyResolved, to test the properties against: the
\* schedule of a venue that is no longer selected is dropped.
WeeklyResolvedIfCurrent(st, i) ==
    IF st.weeklyFetches[i] # st.selectedResourceId
    THEN [st EXCEPT !.weeklyFetches = RemoveAt(@, i)]
    ELSE [st EXCEPT !.disabledDays =
                        Some(DisabledDays(fetchWeeklySchedule(st.weeklyFetches[i]))),
                    !.weeklyFetches = RemoveAt(@, i)]

\* loadWeekly after its await resolved: setDisabledDays(disabled).
WeeklyResolved(st, i) ==
    [st EXCEPT !.disabledDays = Some(DisabledDays(fetchWeeklySchedule(st.weeklyFetches[i]))),
               !.weeklyFetches = RemoveAt(@, i)]

SAWeeklyResolve(i) ==
    /\ sa' = SACommit(sa, WeeklyResolved(sa, i))
    /\ UNCHANGED <<ba, booked, mx, schedules, pf, pricingRules, pm>>

\* A faulty variant of WeeklyRejected, to test the properties against: the
\* catch block only logs.
WeeklyRejectedKeeps(st, i) ==
    [st EXCEPT !.weeklyFetches = RemoveAt(@, i)]

\* loadWeekly after its await rejected: console.error, setDisabledDays(null).
WeeklyRejected(st, i) ==
    [st EXCEPT !.disabledDays = None, !.weeklyFetches = RemoveAt(@, i)]

SAWeeklyReject(i) ==
    /\ sa' = SACommit(sa, WeeklyRejected(sa, i))
    /\ UNCHANGED <<ba, booked, mx, schedules, pf, pricingRules, pm>>

\* The store marks a slot booked (a booking made elsewhere); is_booked is terminal.
StoreBook(id) ==
    /\ id \in Bookable /\ id \notin booked
    /\ Cardinality(booked) < MaxBookings
    /\ booked' = booked \cup {id}
    /\ UNCHANGED <<sa, ba, mx, schedules, pf, pricingRules, pm>>

\* ------------------------------------------------------ BookingAvailability

\* useState initial values; businessId is the URL's ?businessId=.
BAInitial(businessId) ==
    [ pc |-> "new",
      businessId |-> businessId,
      resources |-> <<>>,
      selectedResource |-> "",
      selectedDate |-> DateOf(6) + 12,
      slots |-> <<>>,
      weeklySchedule |-> <<>>,
      selectedSlots |-> {},
      loading |-> FALSE,
      loadResources |-> "idle",   \* where the loadResources call stands
      slotFetches |-> <<>>,       \* fetchDailySlots calls not yet settled
      weeklyFetches |-> <<>> ]    \* fetchWeeklySchedule calls not yet settled

\* The view does not exist in this run.
BAOff == [BAInitial(NULL) EXCEPT !.pc = "off"]

\* loadWeeklySchedule() up to its await.
loadWeeklySchedule(st) ==
    [st EXCEPT !.weeklyFetches = Append(@, st.selectedResource)]

\* BookingAvailability's loadSlots() up to its await.
BAloadSlots(st) ==
    IF st.selectedResource = "" THEN st
    ELSE [st EXCEPT !.loading = TRUE,
                    !.slotFetches = Append(@, [resourceId |-> st.selectedResource,
                                               date |-> toISODateOnly(st.selectedDate)])]

\* The effects that run after a render: those whose dependencies changed.
BAEffects(old, new) ==
    LET a == IF new.selectedResource # old.selectedResource /\ new.selectedResource # ""
             THEN BAloadSlots(loadWeeklySchedule(new))
             ELSE new
    IN  IF new.selectedDate # old.selectedDate /\ new.selectedResource # ""
        THEN BAloadSlots(a)
        ELSE a

BAWithinBounds(st) ==
    Len(st.slotFetches) + Len(st.weeklyFetches) <= MaxInFlight

\* slots.filter((slot) => selectedSlots.has(slot.id)).reduce((sum, slot) => sum + slot.slot_price, 0)
\* (sum + null is sum in JavaScript).
RECURSIVE totalCharges(_, _)
totalCharges(selectedSlots, slots) ==
    IF slots = <<>> THEN 0
    ELSE LET n == Len(slots)
             sum == totalCharges(selectedSlots, SubSeq(slots, 1, n - 1))
         IN  IF slots[n].id \in selectedSlots
             THEN sum + (IF slots[n].slot_price = NullPrice THEN 0 ELSE slots[n].slot_price)
             ELSE sum

\* A faulty variant of toggleSlot, to test the properties against: the isBooked guard is missing.
toggleSlotUnguarded(prev, slotId, isBooked) ==
    IF slotId \in prev THEN prev \ {slotId} ELSE prev \cup {slotId}

\* toggleSlot(slotId, isBooked) applied to the previous selection.
toggleSlot(prev, slotId, isBooked) ==
    IF isBooked THEN prev
    ELSE IF slotId \in prev THEN prev \ {slotId} ELSE prev \cup {slotId}

\* A faulty variant of isDateDisabled, to test the properties against: Sunday
\* is looked up as day 0.
isDateDisabledNoSunday(st, date) ==
    LET dayOfWeek == getDay(date)
        found == SelectSeq(st.weeklySchedule, LAMBDA s : s.day_of_week = dayOfWeek)
    IN  IF Len(found) > 0 THEN ~found[1].is_open ELSE FALSE

\* isDateDisabled(date)
isDateDisabled(st, date) ==
    LET dayOfWeek == IF getDay(date) = 0 THEN 7 ELSE getDay(date)
        found == SelectSeq(st.weeklySchedule, LAMBDA s : s.day_of_week = dayOfWeek)
    IN  IF Len(found) > 0 THEN ~found[1].is_open ELSE FALSE

\* The slot list renders: ${slot.slot_price.toFixed(2)} throws on a null price,
\* and a render that throws takes the view down with its handlers and its state.
BARenders(st) ==
    st.loading \/ \A i \in DOMAIN st.slots : st.slots[i].slot_price # NullPrice

\* The view is on screen.
BAMounted(st) == st.pc = "mounted" /\ BARenders(st)

\* The first render's effects: loadResources when the URL names a business.
BAMount ==
    /\ ba.pc = "new"
    /\ ba' = [ba EXCEPT !.pc = "mounted",
                        !.loadResources = IF ba.businessId # NULL THEN "fetch" ELSE "idle"]
    /\ UNCHANGED <<sa, booked, mx, schedules, pf, pricingRules, pm>>

\* loadResources after fetchResources resolved.
BAResourcesAnswered(st) ==
    LET data == fetchResources(st.businessId)
    IN  [st EXCEPT !.resources = data,
                   !.selectedResource = IF Len(data) > 0 THEN data[1].id ELSE @,
                   !.loadResources = "idle"]

BAResourcesDone ==
    /\ BAMounted(ba) /\ ba.loadResources = "fetch"
    /\ \/ ba' = BAEffects(ba, BAResourcesAnswered(ba))
       \/ ba' = [ba EXCEPT !.loadResources = "idle"]     \* toast.error only
    /\ BAWithinBounds(ba')
    /\ UNCHANGED <<sa, booked, mx, schedules, pf, pricingRules, pm>>

\* Select onValueChange={setSelectedResource}
BAChangeVenue(r) ==
    /\ BAMounted(ba)
    /\ \E i \in DOMAIN ba.resources : ba.resources[i].id = r
    /\ r # ba.selectedResource
    /\ ba' = BAEffects(ba, [ba EXCEPT !.selectedResource = r])
    /\ BAWithinBounds(ba')
    /\ UNCHANGED <<sa, booked, mx, schedules, pf, pricingRules, pm>>

\* Calendar onSelect={(date) => date && setSelectedDate(date)}, disabled={isDateDisabled}
BAChangeDate(day) ==
    /\ BAMounted(ba)
    /\ day # toISODateOnly(ba.selectedDate)
    /\ ~isDateDisabled(ba, DateOf(day))
    /\ ba' = BAEffects(ba, [ba EXCEPT !.selectedDate = DateOf(day)])
    /\ BAWithinBounds(ba')
    /\ UNCHANGED <<sa, booked, mx, schedules, pf, pricingRules, pm>>

\* The slots the list shows a row for.
BARows(st) ==
    IF st.loading \/ ~BARenders(st) THEN {} ELSE {st.slots[i] : i \in DOMAIN st.slots}

\* A row's onClick={() => toggleSlot(slot.id, slot.is_booked)}
BAToggleSlot(slot) ==
    /\ BAMounted(ba)
    /\ slot \in BARows(ba)
    /\ ba' = [ba EXCEPT !.selectedSlots = toggleSlot(@, slot.id, slot.is_booked)]
    /\ UNCHANGED <<sa, booked, mx, schedules, pf, pricingRules, pm>>

\* loadSlots after its await resolved: setSlots(data), then finally.
\* The store answers with its rows as they are when the request settles.
BASlotsResolved(st, i, bk) ==
    [st EXCEPT !.slots = fetchDailySlots(st.slotFetches[i].resourceId,
                                         st.slotFetches[i].date, bk),
               !.loading = FALSE,
               !.slotFetches = RemoveAt(@, i)]

BASlotsResolve(i) ==
    /\ BAMounted(ba)
    /\ ba' = BASlotsResolved(ba, i, booked)
    /\ UNCHANGED <<sa, booked, mx, schedules, pf, pricingRules, pm>>

\* loadSlots after its await rejected: toast.error, then finally.
BASlotsReject(i) ==
    /\ BAMounted(ba)
    /\ ba' = [ba EXCEPT !.loading = FALSE, !.slotFetches = RemoveAt(@, i)]
    /\ UNCHANGED <<sa, booked, mx, schedules, pf, pricingRules, pm>>

\* loadWeeklySchedule after its await resolved.
BAWeeklyResolve(i) ==
    /\ BAMounted(ba)
    /\ ba' = [ba EXCEPT !.weeklySchedule = fetchWeeklySchedule(ba.weeklyFetches[i]),
                        !.weeklyFetches = RemoveAt(@, i)]
    /\ UNCHANGED <<sa, booked, mx, schedules, pf, pricingRules, pm>>

\* loadWeeklySchedule after its await rejected: console.error only.
BAWeeklyReject(i) ==
    /\ BAMounted(ba)
    /\ ba' = [ba EXCEPT !.weeklyFetches = RemoveAt(@, i)]
    /\ UNCHANGED <<sa, booked, mx, schedules, pf, pricingRules, pm>>

\* ------------------------------------------------ the slot matrix builder

\* The slots a list handed to the builder is made of: two resources, three
\* time windows (two of them starting together), a null and two other prices.
MatrixSlots ==
    [resource_id : {"r1", "r2"}, window : {<<1, 2>>, <<1, 3>>, <<2, 3>>},
     slot_price : {NullPrice, 10, 20}]

\* No list yet / a list is being put together / its matrix is built.
MXOff == [pc |-> "off", slots |-> <<>>, slotMatrix |-> <<>>]

\* One more slot arrives; its id is its place in the list.
MXAppend(x) ==
    /\ mx.pc = "input"
    /\ Len(mx.slots) < MaxLen
    /\ mx' = [mx EXCEPT !.slots = Append(@, [id |-> Len(mx.slots) + 1,
                                            resource_id |-> x.resource_id,
                                            start_time |-> x.window[1],
                                            end_time |-> x.window[2],
                                            slot_price |-> x.slot_price,
                                            is_booked |-> FALSE])]
    /\ UNCHANGED <<sa, ba, booked, schedules, pf, pricingRules, pm>>

\* useMemo(() => { ... }, [slots]) on the list.
MXBuild ==
    /\ mx.pc = "input"
    /\ mx' = [mx EXCEPT !.pc = "built", !.slotMatrix = slotMatrix(mx.slots)]
    /\ UNCHANGED <<sa, ba, booked, schedules, pf, pricingRules, pm>>

\* ------------------------------------------------------ DynamicPricingForm

\* What the user types or picks: a rule name, a price, days, two times.
RuleNames == {"", "Peak"}
PriceInputs == {"", "25"}
PricingDays == {7}
StartTimes == {"", "18:00"}
EndTimes == {"", "20:00"}

\* parseFloat on the price inputs that are not empty.
parseFloat(s) == CASE s = "25" -> 25

\* The resource_pricing_rules table before any rule: no row, no id handed out.
NoPricingRules == [rows |-> <<>>, created |-> 0]

\* fetchPricingRules(resourceId): .eq('resource_id', resourceId)
\*    .order('created_at', { ascending: false })
fetchPricingRules(table, resourceId) ==
    LET match(row) == row.resource_id = resourceId
    IN  SelectSeq(table.rows, match)

\* createPricingRule(pricingRule), when the insert succeeds.
createPricingRule(table, pricingRule) ==
    [rows |-> <<[id |-> table.created + 1,
                 resource_id |-> pricingRule.resource_id,
                 rule_name |-> pricingRule.rule_name,
                 price_override |-> pricingRule.price_override,
                 day_of_week |-> pricingRule.day_of_week,
                 start_time |-> pricingRule.start_time,
                 end_time |-> pricingRule.end_time]>> \o table.rows,
     created |-> table.created + 1]

\* deletePricingRule(ruleId), when the delete succeeds.
deletePricingRule(table, ruleId) ==
    LET keep(row) == row.id # ruleId
    IN  [table EXCEPT !.rows = SelectSeq(@, keep)]

\* The useState initial values; nothing awaited, no toast shown.
PFInitial(resourceId) ==
    [pc |-> "unmounted",
     resourceId |-> resourceId,
     ruleName |-> "",
     priceOverride |-> "",
     selectedDays |-> <<>>,
     startTime |-> "",
     endTime |-> "",
     existingRules |-> <<>>,
     loading |-> FALSE,
     submit |-> "idle",
     pricingRule |-> None,
     ruleFetches |-> 0,
     deletes |-> <<>>,
     toast |-> NULL]

PFOff == [PFInitial(NULL) EXCEPT !.pc = "off"]

\* Requests the form has in flight.
PFInFlight(st) ==
    st.ruleFetches + Len(st.deletes) + (IF st.submit = "idle" THEN 0 ELSE 1)

\* useEffect(() => { loadPricingRules(); }, [resourceId]) on mount.
PFMount ==
    /\ pf.pc = "unmounted"
    /\ pf' = [pf EXCEPT !.pc = "mounted", !.ruleFetches = @ + 1]
    /\ UNCHANGED <<sa, ba, booked, mx, schedules, pricingRules, pm>>

\* onChange={(e) => setRuleName(e.target.value)}
PFSetRuleName(v) ==
    /\ pf.pc = "mounted" /\ v # pf.ruleName
    /\ pf' = [pf EXCEPT !.ruleName = v]
    /\ UNCHANGED <<sa, ba, booked, mx, schedules, pricingRules, pm>>

\* onChange={(e) => setPriceOverride(e.target.value)}
PFSetPriceOverride(v) ==
    /\ pf.pc = "mounted" /\ v # pf.priceOverride
    /\ pf' = [pf EXCEPT !.priceOverride = v]
    /\ UNCHANGED <<sa, ba, booked, mx, schedules, pricingRules, pm>>

\* onChange={(e) => setStartTime(e.target.value)}
PFSetStartTime(v) ==
    /\ pf.pc = "mounted" /\ v # pf.startTime
    /\ pf' = [pf EXCEPT !.startTime = v]
    /\ UNCHANGED <<sa, ba, booked, mx, schedules, pricingRules, pm>>

\* onChange={(e) => setEndTime(e.target.value)}
PFSetEndTime(v) ==
    /\ pf.pc = "mounted" /\ v # pf.endTime
    /\ pf' = [pf EXCEPT !.endTime = v]
    /\ UNCHANGED <<sa, ba, booked, mx, schedules, pricingRules, pm>>

\* prev.includes(day) ? prev.filter((d) => d !== day) : [...prev, day]
handleDayToggle(prev, day) ==
    LET other(d) == d # day
    IN  IF \E i \in DOMAIN prev : prev[i] = day THEN SelectSeq(prev, other)
        ELSE Append(prev, day)

PFDayToggle(day) ==
    /\ pf.pc = "mounted"
    /\ pf' = [pf EXCEPT !.selectedDays = handleDayToggle(@, day)]
    /\ UNCHANGED <<sa, ba, booked, mx, schedules, pricingRules, pm>>

\* A faulty variant of PFIncomplete, to test the properties against: the days
\* are not looked at.
PFIncompleteFieldsOnly(st) ==
    st.ruleName = "" \/ st.priceOverride = "" \/ st.startTime = "" \/ st.endTime = ""

\* !ruleName || !priceOverride || selectedDays.length === 0 || !startTime || !endTime
PFIncomplete(st) ==
    \/ st.ruleName = ""
    \/ st.priceOverride = ""
    \/ Len(st.selectedDays) = 0
    \/ st.startTime = ""
    \/ st.endTime = ""

\* handleSubmit up to its first await.
handleSubmit(st) ==
    IF PFIncomplete(st) THEN [st EXCEPT !.toast = "Please fill in all fields"]
    ELSE [st EXCEPT !.loading = TRUE,
                    !.submit = "creating",
                    !.pricingRule =
                        Some([resource_id |-> st.resourceId,
                              rule_name |-> st.ruleName,
                              price_override |-> parseFloat(st.priceOverride),
                              day_of_week |-> st.selectedDays,
                              start_time |-> st.startTime,
                              end_time |-> st.endTime])]

\* <form onSubmit={handleSubmit}> with <Button type="submit" disabled={loading}>
PFSubmit ==
    /\ pf.pc = "mounted" /\ ~pf.loading
    /\ pf' = handleSubmit(pf)
    /\ PFInFlight(pf') <= MaxInFlight
    /\ UNCHANGED <<sa, ba, booked, mx, schedules, pricingRules, pm>>

\* handleSubmit after createPricingRule resolved: the form is reset and the
\* rules are loaded again.
PFCreateResolve ==
    /\ pf.pc = "mounted" /\ pf.submit = "creating"
    /\ pricingRules.created < MaxPricingRules
    /\ pricingRules' = createPricingRule(pricingRules, pf.pricingRule[1])
    /\ pf' = [pf EXCEPT !.toast = "Pricing rule created successfully",
                        !.ruleName = "",
                        !.priceOverride = "",
                        !.selectedDays = <<>>,
                        !.startTime = "",
                        !.endTime = "",
                        !.pricingRule = None,
                        !.submit = "reloading"]
    /\ UNCHANGED <<sa, ba, booked, mx, schedules, pm>>

\* handleSubmit after createPricingRule threw: catch, then finally.
PFCreateReject ==
    /\ pf.pc = "mounted" /\ pf.submit = "creating"
    /\ \E message \in FailureMessages("Failed to create pricing rule") :
           pf' = [pf EXCEPT !.toast = message, !.pricingRule = None,
                            !.submit = "idle", !.loading = FALSE]
    /\ UNCHANGED <<sa, ba, booked, mx, schedules, pricingRules, pm>>

\* handleSubmit after its loadPricingRules settled, then finally; a failure of
\* the fetch is caught inside loadPricingRules.
PFReloadDone ==
    /\ pf.pc = "mounted" /\ pf.submit = "reloading"
    /\ \/ pf' = [pf EXCEPT !.existingRules = fetchPricingRules(pricingRules, pf.resourceId),
                           !.submit = "idle", !.loading = FALSE]
       \/ pf' = [pf EXCEPT !.submit = "idle", !.loading = FALSE]
    /\ UNCHANGED <<sa, ba, booked, mx, schedules, pricingRules, pm>>

\* loadPricingRules of the mount or of a delete, after fetchPricingRules resolved.
PFRulesResolve ==
    /\ pf.pc = "mounted" /\ pf.ruleFetches > 0
    /\ pf' = [pf EXCEPT !.existingRules = fetchPricingRules(pricingRules, pf.resourceId),
                        !.ruleFetches = @ - 1]
    /\ UNCHANGED <<sa, ba, booked, mx, schedules, pricingRules, pm>>

\* loadPricingRules of the mount or of a delete, after fetchPricingRules threw.
PFRulesReject ==
    /\ pf.pc = "mounted" /\ pf.ruleFetches > 0
    /\ pf' = [pf EXCEPT !.ruleFetches = @ - 1]
    /\ UNCHANGED <<sa, ba, booked, mx, schedules, pricingRules, pm>>

\* onClick={() => handleDelete(rule.id)} up to its first await, on a rule whose
\* deletion is not pending yet.
PFDelete(i) ==
    /\ pf.pc = "mounted"
    /\ \A k \in DOMAIN pf.deletes : pf.deletes[k] # pf.existingRules[i].id
    /\ pf' = [pf EXCEPT !.deletes = Append(@, pf.existingRules[i].id)]
    /\ PFInFlight(pf') <= MaxInFlight
    /\ UNCHANGED <<sa, ba, booked, mx, schedules, pricingRules, pm>>

\* handleDelete after deletePricingRule resolved: the rules are loaded again.
PFDeleteResolve(i) ==
    /\ pf.pc = "mounted"
    /\ pricingRules' = deletePricingRule(pricingRules, pf.deletes[i])
    /\ pf' = [pf EXCEPT !.toast = "Pricing rule deleted",
                        !.deletes = RemoveAt(@, i),
                        !.ruleFetches = @ + 1]
    /\ UNCHANGED <<sa, ba, booked, mx, schedules, pm>>

\* handleDelete after deletePricingRule threw.
PFDeleteReject(i) ==
    /\ pf.pc = "mounted"
    /\ \E message \in FailureMessages("Failed to delete pricing rule") :
           pf' = [pf EXCEPT !.toast = message, !.deletes = RemoveAt(@, i)]
    /\ UNCHANGED <<sa, ba, booked, mx, schedules, pricingRules, pm>>

\* ---------------------------------------------- fetchServicePaymentMethods

\* The business_resources table: service s1 has two resources of one business,
\* service s2 one resource in each of two businesses; no other service has any.
BusinessResources ==
    << [service_id |-> "s1", business_id |-> "b1"],
       [service_id |-> "s1", business_id |-> "b1"],
       [service_id |-> "s2", business_id |-> "b1"],
       [service_id |-> "s2", business_id |-> "b2"] >>

\* The serviceId the function is called with.
ServiceIds == {"s1", "s2", "s9"}

\* What a payment_methods row is made of, its account_name apart.
MethodRows ==
    [business_id : {"b1", "b2"}, method_type : {"kpay", "wave"},
     account_number : {NULL, "111"}]

\* The payment_methods tables: every list of at most MaxMethods rows; the
\* account_name of a row is its place in the table.
PaymentTables ==
    {[i \in DOMAIN f |-> [business_id |-> f[i].business_id,
                          method_type |-> f[i].method_type,
                          account_name |-> i,
                          account_number |-> f[i].account_number]] :
        f \in UNION {[1..k -> MethodRows] : k \in 0..MaxMethods}}

\* .from('business_resources').select('business_id').eq('service_id', serviceId)
SelectBusinessResources(serviceId) ==
    LET match(row) == row.service_id = serviceId
        rows == SelectSeq(BusinessResources, match)
    IN  [i \in DOMAIN rows |-> [business_id |-> rows[i].business_id]]

\* .from('payment_methods').select('method_type, account_name, account_number')
\*    .in('business_id', businessIds)
SelectPaymentMethods(table, businessIds) ==
    LET match(row) == row.business_id \in businessIds
        rows == SelectSeq(table, match)
    IN  [i \in DOMAIN rows |-> [method_type |-> rows[i].method_type,
                                account_name |-> rows[i].account_name,
                                account_number |-> rows[i].account_number]]

\* A faulty variant of SameMethod, to test the properties against: the account
\* number is not compared.
SameMethodTypeOnly(m, method) == m.method_type = method.method_type

\* m.method_type === method.method_type && m.account_number === method.account_number
SameMethod(m, method) ==
    m.method_type = method.method_type /\ m.account_number = method.account_number

\* self.findIndex(m => ...): the first place of self that holds the same method.
findIndex(self, method) ==
    CHOOSE i \in DOMAIN self :
        /\ SameMethod(self[i], method)
        /\ \A j \in 1..(i - 1) : ~SameMethod(self[j], method)

\* paymentMethods.filter((method, index, self) => index === self.findIndex(...)),
\* from place `index` on.
RECURSIVE FilterFirst(_, _)
FilterFirst(self, index) ==
    IF index > Len(self) THEN <<>>
    ELSE IF index = findIndex(self, self[index])
         THEN <<self[index]>> \o FilterFirst(self, index + 1)
         ELSE FilterFirst(self, index + 1)

uniqueMethods(paymentMethods) == FilterFirst(paymentMethods, 1)

\* No call / called with serviceId, nothing awaited yet.
PMInitial(serviceId, table) ==
    [pc |-> "called", serviceId |-> serviceId, table |-> table,
     businessIds |-> {}, result |-> <<>>]

PMOff == [PMInitial(NULL, <<>>) EXCEPT !.pc = "off"]

\* The outcomes of one query besides its rows: { data: null, error }, a thrown
\* exception, { data: null, error: null }.
QueryFailures == {"error", "throws", "null"}

\* return [] : after an error, after no rows.
PMReturnEmpty(st) == [st EXCEPT !.pc = "returned", !.result = <<>>]

\* A faulty variant of PMCaught, to test the properties against: the exception
\* reaches the caller.
PMCaughtRethrows(st) == [st EXCEPT !.pc = "rejected"]

\* catch (error) { console.error(...); return []; }
PMCaught(st) == PMReturnEmpty(st)

\* The continuation of the first await, with its rows.
PMResourcesAnswered(st, businessResources) ==
    IF Len(businessResources) = 0 THEN PMReturnEmpty(st)
    ELSE [st EXCEPT !.pc = "methods",
                    !.businessIds = {businessResources[i].business_id :
                                        i \in DOMAIN businessResources}]

\* The continuation of the second await, with its rows.
PMMethodsAnswered(st, paymentMethods) ==
    IF Len(paymentMethods) = 0 THEN PMReturnEmpty(st)
    ELSE [st EXCEPT !.pc = "returned", !.result = uniqueMethods(paymentMethods)]

\* The continuation of an await that did not bring rows.
PMFailed(st, failure) ==
    IF failure = "throws" THEN PMCaught(st) ELSE PMReturnEmpty(st)

\* The business_resources query is sent.
PMQueryResources ==
    /\ pm.pc = "called"
    /\ pm' = [pm EXCEPT !.pc = "resources"]
    /\ UNCHANGED <<sa, ba, booked, mx, schedules, pf, pricingRules>>

PMResourcesDone ==
    /\ pm.pc = "resources"
    /\ \/ pm' = PMResourcesAnswered(pm, SelectBusinessResources(pm.serviceId))
       \/ \E failure \in QueryFailures : pm' = PMFailed(pm, failure)
    /\ UNCHANGED <<sa, ba, booked, mx, schedules, pf, pricingRules>>

PMMethodsDone ==
    /\ pm.pc = "methods"
    /\ \/ pm' = PMMethodsAnswered(pm, SelectPaymentMethods(pm.table, pm.businessIds))
       \/ \E failure \in QueryFailures : pm' = PMFailed(pm, failure)
    /\ UNCHANGED <<sa, ba, booked, mx, schedules, pf, pricingRules>>

\* ---------------------------------------------------------- specifications

\* The initial resource id of the props or the URL: absent, valid, or unknown.
InitialResourceIds == {NULL, "r1", "r9"}

InitSA ==
    /\ \E id \in InitialResourceIds : sa = SAInitial(id)
    /\ ba = BAOff
    /\ booked = {}
    /\ mx = MXOff
    /\ schedules = StoreSchedules
    /\ pf = PFOff /\ pricingRules = NoPricingRules /\ pm = PMOff

NextSA ==
    \/ SAMount
    \/ SALookupDone
    \/ SASiblingsDone
    \/ \E day \in Dates : SAChangeDate(day)
    \/ \E r \in ResourceIds : SAChangeVenue(r)
    \/ \E slot \in SACells(sa) : SAClickCell(slot)
    \/ \E i \in DOMAIN sa.slotFetches : SASlotsResolve(i)
    \/ \E i \in DOMAIN sa.slotFetches : SASlotsReject(i)
    \/ \E i \in DOMAIN sa.weeklyFetches : SAWeeklyResolve(i)
    \/ \E i \in DOMAIN sa.weeklyFetches : SAWeeklyReject(i)
    \/ \E id \in Bookable : StoreBook(id)

SpecSA == InitSA /\ [][NextSA]_vars

\* The URL's businessId: absent, or the business of the store.
BusinessIds == {NULL, "b1"}

InitBA ==
    /\ \E b \in BusinessIds : ba = BAInitial(b)
    /\ sa = SAOff
    /\ booked = {}
    /\ mx = MXOff
    /\ schedules = StoreSchedules
    /\ pf = PFOff /\ pricingRules = NoPricingRules /\ pm = PMOff

NextBA ==
    \/ BAMount
    \/ BAResourcesDone
    \/ \E r \in ResourceIds : BAChangeVenue(r)
    \/ \E day \in Dates : BAChangeDate(day)
    \/ \E slot \in BARows(ba) : BAToggleSlot(slot)
    \/ \E i \in DOMAIN ba.slotFetches : BASlotsResolve(i)
    \/ \E i \in DOMAIN ba.slotFetches : BASlotsReject(i)
    \/ \E i \in DOMAIN ba.weeklyFetches : BAWeeklyResolve(i)
    \/ \E i \in DOMAIN ba.weeklyFetches : BAWeeklyReject(i)
    \/ \E id \in Bookable : StoreBook(id)

SpecBA == InitBA /\ [][NextBA]_vars

InitMatrix ==
    /\ mx = [MXOff EXCEPT !.pc = "input"]
    /\ sa = SAOff
    /\ ba = BAOff
    /\ booked = {}
    /\ schedules = StoreSchedules
    /\ pf = PFOff /\ pricingRules = NoPricingRules /\ pm = PMOff

NextMatrix ==
    \/ \E x \in MatrixSlots : MXAppend(x)
    \/ MXBuild

SpecMatrix == InitMatrix /\ [][NextMatrix]_vars

\* ServiceAvailability opened on r1, whose weekly schedule is any rule set; the
\* user only changes the venue.
InitWeekly ==
    /\ sa = SAInitial("r1")
    /\ ba = BAOff
    /\ booked = {}
    /\ mx = MXOff
    /\ pf = PFOff /\ pricingRules = NoPricingRules /\ pm = PMOff
    /\ \E S \in RuleSets :
           schedules = [r \in ResourceIds |->
                           IF r = "r1" THEN ByDay(S) ELSE StoreSchedule(r)]

NextWeekly ==
    \/ SAMount
    \/ SALookupDone
    \/ SASiblingsDone
    \/ \E r \in ResourceIds : SAChangeVenue(r)
    \/ \E i \in DOMAIN sa.slotFetches : SASlotsResolve(i)
    \/ \E i \in DOMAIN sa.slotFetches : SASlotsReject(i)
    \/ \E i \in DOMAIN sa.weeklyFetches : SAWeeklyResolve(i)
    \/ \E i \in DOMAIN sa.weeklyFetches : SAWeeklyReject(i)

SpecWeekly == InitWeekly /\ [][NextWeekly]_vars

\* The pricing form of resource r1, over an empty resource_pricing_rules table.
InitPricing ==
    /\ pf = PFInitial("r1")
    /\ pricingRules = NoPricingRules
    /\ sa = SAOff
    /\ ba = BAOff
    /\ booked = {}
    /\ mx = MXOff
    /\ schedules = StoreSchedules
    /\ pm = PMOff

NextPricing ==
    \/ PFMount
    \/ \E v \in RuleNames : PFSetRuleName(v)
    \/ \E v \in PriceInputs : PFSetPriceOverride(v)
    \/ \E day \in PricingDays : PFDayToggle(day)
    \/ \E v \in StartTimes : PFSetStartTime(v)
    \/ \E v \in EndTimes : PFSetEndTime(v)
    \/ PFSubmit
    \/ PFCreateResolve
    \/ PFCreateReject
    \/ PFReloadDone
    \/ PFRulesResolve
    \/ PFRulesReject
    \/ \E i \in DOMAIN pf.existingRules : PFDelete(i)
    \/ \E i \in DOMAIN pf.deletes : PFDeleteResolve(i)
    \/ \E i \in DOMAIN pf.deletes : PFDeleteReject(i)

SpecPricing == InitPricing /\ [][NextPricing]_vars

\* One call of fetchServicePaymentMethods, for any service over any
\* payment_methods table.
InitPayments ==
    /\ \E serviceId \in ServiceIds, table \in PaymentTables :
           pm = PMInitial(serviceId, table)
    /\ pf = PFOff
    /\ pricingRules = NoPricingRules
    /\ sa = SAOff
    /\ ba = BAOff
    /\ booked = {}
    /\ mx = MXOff
    /\ schedules = StoreSchedules

NextPayments ==
    \/ PMQueryResources
    \/ PMResourcesDone
    \/ PMMethodsDone

SpecPayments == InitPayments /\ [][NextPayments]_vars

\* ServiceAvailability opened on r1, where the user can also pick a day
\* without slots; the venue stays and nobody books.
InitEmptyDay ==
    /\ sa = SAInitial("r1")
    /\ ba = BAOff
    /\ booked = {}
    /\ mx = MXOff
    /\ schedules = StoreSchedules
    /\ pf = PFOff /\ pricingRules = NoPricingRules /\ pm = PMOff

NextEmptyDay ==
    \/ SAMount
    \/ SALookupDone
    \/ SASiblingsDone
    \/ \E day \in Dates \cup EmptyDates : SAChangeDate(day)
    \/ \E slot \in SACells(sa) : SAClickCell(slot)
    \/ \E i \in DOMAIN sa.slotFetches : SASlotsResolve(i)
    \/ \E i \in DOMAIN sa.slotFetches : SASlotsReject(i)
    \/ \E i \in DOMAIN sa.weeklyFetches : SAWeeklyResolve(i)
    \/ \E i \in DOMAIN sa.weeklyFetches : SAWeeklyReject(i)

SpecEmptyDay == InitEmptyDay /\ [][NextEmptyDay]_vars

\* Both views opened on the same business, whose first venue r1 has any
\* schedule of one rule per day; nobody changes the venue or the date.
InitGates ==
    /\ sa = SAInitial("r1")
    /\ ba = BAInitial("b1")
    /\ booked = {}
    /\ mx = MXOff
    /\ \E week \in WeekSchedules :
           schedules = [r \in ResourceIds |->
                           IF r = "r1" THEN week ELSE StoreSchedule(r)]
    /\ pf = PFOff /\ pricingRules = NoPricingRules /\ pm = PMOff

NextGates ==
    \/ SAMount
    \/ SALookupDone
    \/ SASiblingsDone
    \/ \E i \in DOMAIN sa.slotFetches : SASlotsResolve(i)
    \/ \E i \in DOMAIN sa.slotFetches : SASlotsReject(i)
    \/ \E i \in DOMAIN sa.weeklyFetches : SAWeeklyResolve(i)
    \/ \E i \in DOMAIN sa.weeklyFetches : SAWeeklyReject(i)
    \/ BAMount
    \/ BAResourcesDone
    \/ \E i \in DOMAIN ba.slotFetches : BASlotsResolve(i)
    \/ \E i \in DOMAIN ba.slotFetches : BASlotsReject(i)
    \/ \E i \in DOMAIN ba.weeklyFetches : BAWeeklyResolve(i)
    \/ \E i \in DOMAIN ba.weeklyFetches : BAWeeklyReject(i)

SpecGates == InitGates /\ [][NextGates]_vars

\* Either view, on the same store.
Init == InitSA \/ InitBA

Next == NextSA \/ NextBA

Spec == Init /\ [][Next]_vars

\* ================================================================ claims

\* The sum of price[x] over the finite set S.
RECURSIVE SumOver(_, _)
SumOver(S, price) ==
    IF S = {} THEN 0
    ELSE LET x == CHOOSE y \in S : TRUE IN price[x] + SumOver(S \ {x}, price)

\* C1 (as claimed): in ServiceAvailability a step that changes the selected
\* venue or the selected date leaves selectedSlotIds empty, the effects the
\* change triggers included.
C1_SelectionEmptyAfterChange ==
    [][(sa'.selectedResourceId # sa.selectedResourceId
        \/ sa'.selectedDate # sa.selectedDate) => sa'.selectedSlotIds = {}]_vars

\* C3 (as claimed): in ServiceAvailability no selected id is the id of a slot
\* of the current slots list whose is_booked is true.
C3_NoBookedSlotSelected ==
    \A i \in DOMAIN sa.slots :
        sa.slots[i].is_booked => sa.slots[i].id \notin sa.selectedSlotIds

\* C2 (as claimed): in BookingAvailability, when the slot load that the last
\* venue or date change started settles (loading was true all along, so no slot
\* could be toggled since the change) and no load is left, selectedSlots is empty.
C2_SelectionEmptyAfterLoads ==
    [][(/\ ba.loading /\ Len(ba.slotFetches) = 1
        /\ ~ba'.loading /\ ba'.slotFetches = <<>> /\ ba'.weeklyFetches = <<>>)
       => ba'.selectedSlots = {}]_vars

\* C4 (as claimed): in BookingAvailability no selected id is the id of a slot
\* of the current slots list whose is_booked is true.
C4_NoBookedSlotSelected ==
    \A i \in DOMAIN ba.slots :
        ba.slots[i].is_booked => ba.slots[i].id \notin ba.selectedSlots

\* C5: a click that toggles a booked slot (toggleSelect through the cell's
\* onClick in ServiceAvailability, toggleSlot in BookingAvailability) changes
\* nothing: the selection, the slot list, the total, the loading flags and the
\* error are what they were.
C5_BookedToggleIsNoOp ==
    /\ [](\A slot \in SACells(sa) :
              slot.is_booked
              => /\ toggleSelect(sa.selectedSlotIds, slot) = sa.selectedSlotIds
                 /\ SACommit(sa, ClickCell(sa, slot)) = sa)
    /\ [](\A slot \in BARows(ba) :
              slot.is_booked
              => toggleSlot(ba.selectedSlots, slot.id, slot.is_booked) = ba.selectedSlots)
    /\ [][\A slot \in SACells(sa) :
              (slot.is_booked /\ SAClickCell(slot)) => sa' = sa]_vars
    /\ [][\A slot \in BARows(ba) :
              (slot.is_booked /\ BAToggleSlot(slot))
              => /\ ba' = ba
                 /\ totalCharges(ba'.selectedSlots, ba'.slots)
                      = totalCharges(ba.selectedSlots, ba.slots)]_vars

\* C5 witness: BookingAvailability shows a booked slot that can be clicked
\* while another slot's id is selected.
C5_Witness ==
    /\ ba.selectedSlots # {}
    /\ \E slot \in BARows(ba) : slot.is_booked

\* The same case in ServiceAvailability: a booked cell is shown while the
\* selection is not empty.
C5_WitnessSA ==
    /\ sa.selectedSlotIds # {}
    /\ \E slot \in SACells(sa) : slot.is_booked

\* C6: after a click that toggles a slot that is not booked, the slot is still
\* shown and toggling it again gives back the selection the first click started
\* from, in ServiceAvailability and in BookingAvailability.
C6_ToggleTwiceRestores ==
    [][/\ \A slot \in SACells(sa) :
              (~slot.is_booked /\ SAClickCell(slot))
              => /\ slot \in SACells(sa')
                 /\ sa'.selectedSlotIds # sa.selectedSlotIds
                 /\ ClickCell(sa', slot).selectedSlotIds = sa.selectedSlotIds
       /\ \A slot \in BARows(ba) :
              (~slot.is_booked /\ BAToggleSlot(slot))
              => /\ slot \in BARows(ba')
                 /\ ba'.selectedSlots # ba.selectedSlots
                 /\ toggleSlot(ba'.selectedSlots, slot.id, slot.is_booked)
                      = ba.selectedSlots]_vars

\* C6 witness: ServiceAvailability shows two slots that are not booked, one that
\* a click has put in the selection and one that is not in it.
C6_Witness ==
    \E a \in SACells(sa) : \E b \in SACells(sa) :
        /\ ~a.is_booked /\ ~b.is_booked
        /\ a.id \in sa.selectedSlotIds /\ b.id \notin sa.selectedSlotIds

\* The same case in BookingAvailability.
C6_WitnessBA ==
    \E a \in BARows(ba) : ~a.is_booked /\ a.id \in ba.selectedSlots

\* C7: in ServiceAvailability the displayed total is the sum of slot_price,
\* null counted as 0, over the slots of the current list whose id is selected.
C7_TotalMatchesSelection ==
    sa.total = SumOver({i \in DOMAIN sa.slots : sa.slots[i].id \in sa.selectedSlotIds},
                       [i \in DOMAIN sa.slots |->
                           IF sa.slots[i].slot_price = NullPrice THEN 0
                           ELSE sa.slots[i].slot_price])

\* C7 witness: a slot list is shown after an earlier one was replaced, a priced
\* and a null-priced slot of it are selected, and an id of an earlier list is
\* still in the selection.
C7_Witness ==
    /\ sa.total > 0
    /\ \E i \in DOMAIN sa.slots :
           sa.slots[i].id \in sa.selectedSlotIds /\ sa.slots[i].slot_price = NullPrice
    /\ \E id \in sa.selectedSlotIds : \A i \in DOMAIN sa.slots : sa.slots[i].id # id

\* The (start_time, end_time) pairs of a slot list.
Pairs(slots) == {<<slots[i].start_time, slots[i].end_time>> : i \in DOMAIN slots}

\* C8: the slot matrix has exactly one row per distinct (start_time, end_time)
\* pair of the input: as many rows as pairs, every pair on a row, no pair twice.
C8_OneRowPerPair ==
    mx.pc = "built" =>
        /\ Len(mx.slotMatrix) = Cardinality(Pairs(mx.slots))
        /\ Pairs(mx.slotMatrix) = Pairs(mx.slots)
        /\ \A i \in DOMAIN mx.slotMatrix : \A j \in DOMAIN mx.slotMatrix :
               i # j => <<mx.slotMatrix[i].start_time, mx.slotMatrix[i].end_time>>
                          # <<mx.slotMatrix[j].start_time, mx.slotMatrix[j].end_time>>

\* C8 witness: a built matrix of two rows that start together and end apart,
\* from a list in which one of the two pairs occurs twice.
C8_Witness ==
    /\ mx.pc = "built"
    /\ Len(mx.slotMatrix) = 2
    /\ mx.slotMatrix[1].start_time = mx.slotMatrix[2].start_time
    /\ Len(mx.slots) = 3

\* C9: the rows of the slot matrix are in non-decreasing start_time order.
C9_RowsSortedByStart ==
    mx.pc = "built" =>
        \A i \in DOMAIN mx.slotMatrix : \A j \in DOMAIN mx.slotMatrix :
            i < j => mx.slotMatrix[i].start_time <= mx.slotMatrix[j].start_time

\* C9 witness: a built matrix of several rows from a list whose first slot
\* starts after a later one.
C9_Witness ==
    /\ mx.pc = "built"
    /\ Len(mx.slotMatrix) > 1
    /\ \E i \in DOMAIN mx.slots : mx.slots[i].start_time < mx.slots[1].start_time

\* The places in the list of the slots with a row's pair and a price that is not null.
Priced(slots, row) ==
    {i \in DOMAIN slots : /\ slots[i].start_time = row.start_time
                          /\ slots[i].end_time = row.end_time
                          /\ slots[i].slot_price # NullPrice}

\* C10: a row's price is the price of the first slot of the input with the row's
\* pair and a price that is not null, and null when the pair has no such slot.
C10_RowPriceIsFirstNonNull ==
    mx.pc = "built" =>
        \A k \in DOMAIN mx.slotMatrix :
            LET row == mx.slotMatrix[k]
                priced == Priced(mx.slots, row)
            IN  IF priced = {} THEN row.price = NullPrice
                ELSE \E i \in priced :
                        /\ \A j \in priced : i <= j
                        /\ row.price = mx.slots[i].slot_price

\* C10 witness: a built matrix with a row whose pair has first a slot with a
\* null price, then a priced slot, then a slot with another price.
C10_Witness ==
    /\ mx.pc = "built"
    /\ \E k \in DOMAIN mx.slotMatrix :
           LET priced == Priced(mx.slots, mx.slotMatrix[k])
           IN  /\ \E i \in priced : \E j \in priced :
                      i < j /\ mx.slots[i].slot_price # mx.slots[j].slot_price
               /\ \E n \in DOMAIN mx.slots :
                      /\ mx.slots[n].slot_price = NullPrice
                      /\ mx.slots[n].start_time = mx.slotMatrix[k].start_time
                      /\ mx.slots[n].end_time = mx.slotMatrix[k].end_time
                      /\ \A i \in priced : n < i

\* The places in the list of the slots of resource r with a row's pair.
Placed(slots, row, r) ==
    {i \in DOMAIN slots : /\ slots[i].resource_id = r
                          /\ slots[i].start_time = row.start_time
                          /\ slots[i].end_time = row.end_time}

\* C11: in every row of the slot matrix, slotsByResource has an entry for a
\* resource exactly when the input has a slot of that resource with the row's
\* pair, and the entry is the last such slot of the input.
C11_LastSlotPerResource ==
    mx.pc = "built" =>
        \A k \in DOMAIN mx.slotMatrix :
            LET row == mx.slotMatrix[k]
            IN  /\ \A r \in DOMAIN row.slotsByResource : Placed(mx.slots, row, r) # {}
                /\ \A r \in {"r1", "r2"} :
                       LET placed == Placed(mx.slots, row, r)
                       IN  placed # {} =>
                               /\ r \in DOMAIN row.slotsByResource
                               /\ \E i \in placed :
                                      /\ \A j \in placed : j <= i
                                      /\ row.slotsByResource[r] = mx.slots[i]

\* C11 witness: a built matrix with a row for which one resource has two slots
\* in the list and the other resource has none.
C11_Witness ==
    /\ mx.pc = "built"
    /\ \E k \in DOMAIN mx.slotMatrix :
           /\ Cardinality(Placed(mx.slots, mx.slotMatrix[k], "r1")) > 1
           /\ Placed(mx.slots, mx.slotMatrix[k], "r2") = {}
           /\ Len(mx.slotMatrix) > 1

\* The calendar days (0 = Sunday) for which a fetched rule set has a rule at all.
DaysWithRule(rules) == {rules[k].day_of_week % 7 : k \in DOMAIN rules}

\* The calendar days for which a fetched rule set has a rule with is_open = true.
DaysOpen(rules) ==
    {d \in 0..6 : \E k \in DOMAIN rules : rules[k].is_open /\ rules[k].day_of_week % 7 = d}

\* C12 (as claimed): when a weekly-schedule fetch of ServiceAvailability
\* resolves, no day for which the fetched rule set has no rule is in the
\* disabled-day set it leaves.
C12_NoRuleNeverDisabled ==
    [][\A i \in DOMAIN sa.weeklyFetches :
           SAWeeklyResolve(i)
           => \A d \in 0..6 :
                  d \notin DaysWithRule(fetchWeeklySchedule(sa.weeklyFetches[i]))
                  => d \notin sa'.disabledDays[1]]_vars

\* C13: when a weekly-schedule fetch of ServiceAvailability resolves, the
\* disabled-day set it leaves is exactly the days 0..6 that are not
\* day_of_week mod 7 of a fetched rule with is_open = true.
C13_DisabledIsComplementOfOpen ==
    [][\A i \in DOMAIN sa.weeklyFetches :
           SAWeeklyResolve(i)
           => /\ sa'.disabledDays # None
              /\ sa'.disabledDays[1]
                   = (0..6) \ DaysOpen(fetchWeeklySchedule(sa.weeklyFetches[i]))]_vars

\* C13 witness: the disabled days on screen come from a schedule of r1 with an
\* open Sunday (day_of_week 7) and a closed day, r1 being the selected venue.
C13_Witness ==
    /\ sa.pc = "mounted" /\ sa.selectedResourceId = "r1" /\ sa.weeklyFetches = <<>>
    /\ sa.disabledDays # None
    /\ \E k \in DOMAIN schedules["r1"] :
           schedules["r1"][k].day_of_week = 7 /\ schedules["r1"][k].is_open
    /\ \E k \in DOMAIN schedules["r1"] : ~schedules["r1"][k].is_open
    /\ 0 \notin sa.disabledDays[1]

\* The weekly schedule of the scenario: the single rule {day_of_week: 7, is_open: true}.
SundayOnly == <<[day_of_week |-> 7, is_open |-> TRUE]>>

\* C14 (as claimed): when the fetched weekly schedule is the single rule
\* {day_of_week: 7, is_open: true}, the disabled-day set is {0,1,2,3,4,5}.
C14_SundayOnlyAsClaimed ==
    [][\A i \in DOMAIN sa.weeklyFetches :
           (SAWeeklyResolve(i) /\ fetchWeeklySchedule(sa.weeklyFetches[i]) = SundayOnly)
           => sa'.disabledDays = Some(0..5)]_vars

\* C14 (amended): when the fetched weekly schedule is the single rule
\* {day_of_week: 7, is_open: true}, the disabled-day set is {1,2,3,4,5,6}:
\* only Sunday, calendar day 0, stays open.
C14_SundayOnlyDisablesMondayToSaturday ==
    [][\A i \in DOMAIN sa.weeklyFetches :
           (SAWeeklyResolve(i) /\ fetchWeeklySchedule(sa.weeklyFetches[i]) = SundayOnly)
           => sa'.disabledDays = Some(1..6)]_vars

\* C14 witness: the disabled days on screen come from r1's schedule, which is
\* the single open rule for day_of_week 7.
C14_Witness ==
    /\ sa.pc = "mounted" /\ sa.selectedResourceId = "r1" /\ sa.weeklyFetches = <<>>
    /\ schedules["r1"] = SundayOnly
    /\ sa.disabledDays # None
    /\ 0 \notin sa.disabledDays[1]

\* C15: when a weekly-schedule fetch of ServiceAvailability fails, the step
\* leaves disabledDays null, so the calendar disables no day, and leaves the
\* error of the view as it was.
C15_WeeklyFailureFailsOpen ==
    [][\A i \in DOMAIN sa.weeklyFetches :
           SAWeeklyReject(i)
           => /\ sa'.disabledDays = None
              /\ \A day \in 0..6 : ~SADayDisabled(sa', DateOf(day))
              /\ sa'.error = sa.error
              /\ sa'.pc = "mounted"]_vars

\* C15 witness: the venue was changed, every weekly-schedule fetch has settled,
\* the one that settled last failed, and no day is disabled.
C15_Witness ==
    /\ sa.pc = "mounted"
    /\ sa.selectedResourceId # sa.initialResourceId
    /\ sa.weeklyFetches = <<>>
    /\ sa.disabledDays = None

\* C16 (as claimed): when a weekly-schedule fetch of BookingAvailability fails,
\* isDateDisabled is false for every day of the week afterwards.
C16_WeeklyFailureFailsOpen ==
    [][\A i \in DOMAIN ba.weeklyFetches :
           BAWeeklyReject(i)
           => \A day \in 0..6 : ~isDateDisabled(ba', DateOf(day))]_vars

\* C17: in ServiceAvailability a step starts a slot fetch only into a state in
\* which the business id is known, loadingResources is false and loadResources
\* has run to its end; the fetch it starts is for that business id.
C17_SlotFetchAfterResources ==
    [][Len(sa'.slotFetches) > Len(sa.slotFetches)
       => /\ sa'.businessId # NULL
          /\ ~sa'.loadingResources
          /\ sa'.loadResources = "idle"
          /\ sa'.slotFetches[Len(sa'.slotFetches)].businessId = sa'.businessId]_vars

\* C17 witness: the date was changed while the resources were still loading
\* and the business id already known, and no slot fetch has been started.
C17_Witness ==
    /\ sa.pc = "mounted"
    /\ sa.loadingResources /\ sa.businessId # NULL
    /\ sa.selectedDate # SAInitial(NULL).selectedDate
    /\ sa.slotFetches = <<>>
    /\ sa.slots = <<>>

\* The same view once its resources are loaded: the slot fetch has started.
C17_WitnessStarted ==
    /\ sa.pc = "mounted"
    /\ ~sa.loadingResources /\ sa.businessId # NULL
    /\ sa.selectedDate # SAInitial(NULL).selectedDate
    /\ sa.slotFetches # <<>>
    /\ sa.slots = <<>>

\* The calendar days of the slots of a list.
DaysOf(slots) == {slots[i].start_time \div 24 : i \in DOMAIN slots}

\* C18: slot fetches of ServiceAvailability are not cancelled. A change of the
\* date leaves every pending slot fetch pending, and a slot fetch that resolves
\* puts the rows of its own date in slots, whatever date is selected by then.
C18_SlotFetchesNotCancelled ==
    [][/\ sa'.selectedDate # sa.selectedDate
          => /\ Len(sa'.slotFetches) >= Len(sa.slotFetches)
             /\ SubSeq(sa'.slotFetches, 1, Len(sa.slotFetches)) = sa.slotFetches
       /\ \A i \in DOMAIN sa.slotFetches :
              SASlotsResolve(i)
              => /\ DaysOf(sa'.slots) = {sa.slotFetches[i].date}
                 /\ sa'.selectedDate = sa.selectedDate]_vars

\* C18 witness: no fetch is in flight, no fetch failed since the last one
\* started, and the slots on screen are those of a day other than the selected
\* one: the fetch for the earlier date resolved after the fetch for the later.
C18_Witness ==
    /\ sa.pc = "mounted"
    /\ sa.slotFetches = <<>> /\ sa.weeklyFetches = <<>>
    /\ ~sa.loadingSlots /\ ~sa.loadingResources
    /\ sa.error = NULL
    /\ sa.slots # <<>>
    /\ toISODateOnly(sa.selectedDate) \notin DaysOf(sa.slots)

\* C19 (as claimed): when a slot fetch of ServiceAvailability fails, the step
\* leaves error holding a failure message, slots as it was, selectedSlotIds
\* empty and loadingSlots false.
C19_SlotFailureBecomesState ==
    [][\A i \in DOMAIN sa.slotFetches :
           SASlotsReject(i)
           => /\ sa'.error \in FailureMessages("Failed to load slots")
              /\ sa'.slots = sa.slots
              /\ sa'.selectedSlotIds = {}
              /\ ~sa'.loadingSlots]_vars

\* C20 (as claimed): when loadResources of ServiceAvailability failed (it ran
\* to its end and left no resources), the date was never changed and no fetch
\* is in flight, an error is shown.
C20_ResourceErrorStays ==
    (/\ sa.pc = "mounted" /\ sa.initialResourceId # NULL
     /\ sa.loadResources = "idle" /\ sa.resources = <<>>
     /\ sa.selectedDate = SAInitial(NULL).selectedDate
     /\ sa.slotFetches = <<>> /\ sa.weeklyFetches = <<>>)
    => sa.error # NULL

\* C21: when the store answers the lookup of the initial resource id with no
\* resource, error becomes "Resource not found", which is none of the messages
\* a failed lookup leaves; the business id stays unresolved, the resources stop
\* loading and no slot fetch is sent, then or later.
C21_NotFoundIsItsOwnError ==
    /\ [][(/\ SALookupDone
           /\ LookupResource(sa.initialResourceId) = None
           /\ sa' = SACommit(sa, LookupAnswered(sa)))
          => /\ sa'.error = "Resource not found"
             /\ sa'.error \notin FailureMessages("Failed to load resources")
             /\ sa'.businessId = NULL
             /\ ~sa'.loadingResources
             /\ sa'.slotFetches = <<>>]_vars
    /\ [](sa.businessId = NULL => sa.slotFetches = <<>> /\ sa.slots = <<>>)

\* The unknown resource id was looked up and reported, and the user went on to
\* pick another day.
C21_Witness ==
    /\ sa.initialResourceId = "r9"
    /\ sa.error = "Resource not found"
    /\ sa.businessId = NULL
    /\ toISODateOnly(sa.selectedDate) = 7
    /\ sa.slotFetches = <<>>

\* C22: a submit of the pricing form while the rule name, the price, the start
\* time or the end time is empty, or while no day is picked, sends no
\* createPricingRule call, writes no form field, leaves the list of existing
\* rules and the table as they are, and leaves loading false.
C22_IncompleteSubmitSendsNothing ==
    [][(/\ PFSubmit
        /\ \/ pf.ruleName = ""
           \/ pf.priceOverride = ""
           \/ pf.startTime = ""
           \/ pf.endTime = ""
           \/ pf.selectedDays = <<>>)
       => /\ pf'.submit = pf.submit
          /\ pf'.pricingRule = None
          /\ PFInFlight(pf') = PFInFlight(pf)
          /\ pf'.ruleName = pf.ruleName
          /\ pf'.priceOverride = pf.priceOverride
          /\ pf'.selectedDays = pf.selectedDays
          /\ pf'.startTime = pf.startTime
          /\ pf'.endTime = pf.endTime
          /\ pf'.existingRules = pf.existingRules
          /\ ~pf'.loading
          /\ pricingRules' = pricingRules]_vars

\* A rule was created and listed; the form, filled again but for the days, was
\* then submitted and turned down, and nothing is pending.
C22_Witness ==
    /\ pf.toast = "Please fill in all fields"
    /\ pf.ruleName # "" /\ pf.priceOverride # ""
    /\ pf.startTime # "" /\ pf.endTime # ""
    /\ pf.selectedDays = <<>>
    /\ Len(pf.existingRules) = 1
    /\ Len(pricingRules.rows) = 1
    /\ ~pf.loading
    /\ PFInFlight(pf) = 0

\* C23: whenever a slot fetch resolves with an empty list and leaves no slot
\* fetch in flight, the slot matrix is empty, the "No slots found" row is
\* shown and error is null.
C23_EmptyResultIsNotAnError ==
    [][\A i \in DOMAIN sa.slotFetches :
           (/\ SASlotsResolve(i)
            /\ fetchAllSlotsForBusiness(sa.slotFetches[i].businessId,
                                        sa.slotFetches[i].date, booked) = <<>>
            /\ sa'.slotFetches = <<>>)
           => /\ slotMatrix(sa'.slots) = <<>>
              /\ NoSlotsShown(sa')
              /\ sa'.error = NULL]_vars

\* C24: in ServiceAvailability every selected id is the id of a slot of the
\* current slots list, in every reachable state.
C24_SelectionWithinSlots ==
    \A id \in sa.selectedSlotIds : \E i \in DOMAIN sa.slots : sa.slots[i].id = id

\* C26: in ServiceAvailability loadingSlots is true while a slot fetch is in
\* flight, so that no cell is shown, hence none can be toggled, meanwhile.
C26_LoadingWhileFetching ==
    sa.slotFetches # <<>> => sa.loadingSlots /\ SACells(sa) = {}

\* C25: weekly-schedule fetches of ServiceAvailability are not cancelled. A
\* change of the venue leaves every pending schedule fetch pending, and a
\* schedule fetch that resolves puts the disabled days of its own venue in
\* disabledDays, whatever venue is selected by then.
C25_WeeklyFetchesNotCancelled ==
    [][/\ sa'.selectedResourceId # sa.selectedResourceId
          => /\ Len(sa'.weeklyFetches) = Len(sa.weeklyFetches) + 1
             /\ SubSeq(sa'.weeklyFetches, 1, Len(sa.weeklyFetches)) = sa.weeklyFetches
       /\ \A i \in DOMAIN sa.weeklyFetches :
              SAWeeklyResolve(i)
              => /\ sa'.disabledDays =
                        Some(DisabledDays(fetchWeeklySchedule(sa.weeklyFetches[i])))
                 /\ sa'.selectedResourceId = sa.selectedResourceId]_vars

\* C25 witness: the venue was changed and changed back, no fetch is in flight
\* and the disabled days are those of a venue of the list other than the
\* selected one, whose own differ: the fetch for the earlier venue resolved
\* after the fetch for the later.
C25_Witness ==
    /\ sa.pc = "mounted"
    /\ sa.selectedResourceId = sa.initialResourceId
    /\ sa.slotFetches = <<>> /\ sa.weeklyFetches = <<>>
    /\ ~sa.loadingSlots /\ ~sa.loadingResources
    /\ sa.disabledDays # None
    /\ sa.disabledDays[1] # DisabledDays(fetchWeeklySchedule(sa.selectedResourceId))
    /\ \E k \in DOMAIN sa.resources :
           /\ sa.resources[k].id # sa.selectedResourceId
           /\ sa.disabledDays[1] = DisabledDays(fetchWeeklySchedule(sa.resources[k].id))

\* C27: once both views have loaded the same weekly schedule of one rule per
\* day_of_week 1..7, a weekday is in ServiceAvailability's disabledDays exactly
\* when BookingAvailability's isDateDisabled is true of the dates falling on it.
C27_GatesAgree ==
    (/\ sa.disabledDays # None
     /\ ba.weeklySchedule # <<>>
     /\ sa.selectedResourceId = ba.selectedResource)
    => \A day \in 0..13 :
           getDay(DateOf(day)) \in sa.disabledDays[1] <=> isDateDisabled(ba, DateOf(day))

\* Both views hold a schedule of seven rules that closes Sunday and Monday and
\* opens Saturday.
C27_Witness ==
    /\ sa.disabledDays # None
    /\ Len(ba.weeklySchedule) = 7
    /\ sa.selectedResourceId = ba.selectedResource
    /\ {0, 1} \subseteq sa.disabledDays[1]
    /\ 6 \notin sa.disabledDays[1]
    /\ isDateDisabled(ba, DateOf(7))
    /\ ~isDateDisabled(ba, DateOf(6))

\* The (method_type, account_number) pair of a payment method.
PairOf(method) == <<method.method_type, method.account_number>>

\* The place of a row in a fetched list; a row is known by its account_name.
PlaceIn(fetched, method) ==
    CHOOSE k \in DOMAIN fetched : fetched[k].account_name = method.account_name

\* C28: when the payment_methods query brings rows, fetchServicePaymentMethods
\* returns them without duplicates of the pair (method_type, account_number):
\* no two entries of the result have the same pair, every pair of the fetched
\* list is in the result, each entry is the first row of the fetched list with
\* its pair, and the entries are in the order of the fetched list.
C28_UniqueByTypeAndNumber ==
    [][LET fetched == SelectPaymentMethods(pm.table, pm.businessIds)
           result == pm'.result
       IN  (pm.pc = "methods" /\ pm' = PMMethodsAnswered(pm, fetched))
           => /\ pm'.pc = "returned"
              /\ \A i, j \in DOMAIN result :
                     i # j => PairOf(result[i]) # PairOf(result[j])
              /\ \A k \in DOMAIN fetched :
                     \E i \in DOMAIN result : PairOf(result[i]) = PairOf(fetched[k])
              /\ \A i \in DOMAIN result :
                     \E k \in DOMAIN fetched :
                         /\ fetched[k] = result[i]
                         /\ \A j \in 1..(k - 1) : PairOf(fetched[j]) # PairOf(result[i])
              /\ \A i, j \in DOMAIN result :
                     i < j => PlaceIn(fetched, result[i]) < PlaceIn(fetched, result[j])]_vars

\* Three rows were fetched, the third a duplicate of the first by its pair
\* with a null account number; the first and the second were returned, in order.
C28_Witness ==
    /\ pm.pc = "returned"
    /\ Len(SelectPaymentMethods(pm.table, pm.businessIds)) = 3
    /\ Len(pm.result) = 2
    /\ pm.result[1].account_number = NULL
    /\ pm.result = SubSeq(SelectPaymentMethods(pm.table, pm.businessIds), 1, 2)
    /\ PairOf(SelectPaymentMethods(pm.table, pm.businessIds)[3]) = PairOf(pm.result[1])

\* C29: fetchServicePaymentMethods never rejects. Whatever the first query
\* does, the call either sends the payment_methods query, and then the first
\* query brought at least one row, or returns the empty list; whatever the
\* second query does, the call returns, and returns the empty list unless the
\* query brought rows; the payment_methods query is pending only after the
\* business_resources query.
C29_NeverFailsTowardCaller ==
    [][LET businessResources == SelectBusinessResources(pm.serviceId)
           fetched == SelectPaymentMethods(pm.table, pm.businessIds)
       IN  /\ pm'.pc # "rejected"
           /\ (pm.pc = "resources" /\ pm' # pm)
              => \/ /\ pm'.pc = "methods"
                    /\ Len(businessResources) > 0
                    /\ pm'.businessIds = {businessResources[i].business_id :
                                             i \in DOMAIN businessResources}
                 \/ pm'.pc = "returned" /\ pm'.result = <<>>
           /\ (pm.pc = "methods" /\ pm' # pm)
              => /\ pm'.pc = "returned"
                 /\ pm'.result = <<>> \/ Len(fetched) > 0
           /\ (pm'.pc = "methods" /\ pm' # pm) => pm.pc = "resources"]_vars

\* The first query brought rows, the table holds payment methods of those
\* businesses, and the call returned the empty list: the second query failed.
C29_Witness ==
    /\ pm.pc = "returned"
    /\ pm.businessIds = {"b1", "b2"}
    /\ Len(SelectPaymentMethods(pm.table, pm.businessIds)) = MaxMethods
    /\ pm.result = <<>>

====
